---- MODULE Spec2Model ----
(***************************************************************************)
(* Model of the two utilities of the CheckStream repository:              *)
(*   scripts/build_tokenizer.py   (specification SpecTokenizer)           *)
(*   examples/streaming_demo.py   (specification Spec)                    *)
(* Text is modelled as a sequence of one-character strings, so that       *)
(* str.strip(), the `in` substring test and json.dumps are computed on    *)
(* characters as Python computes them.                                     *)
(***************************************************************************)
EXTENDS Integers, Sequences, FiniteSets, TLC

VARIABLES
  \* ---- scripts/build_tokenizer.py ----
  vocab_txt,        \* <model_dir>/vocab.txt        [exists, lines]
  tokenizer_file,   \* <model_dir>/tokenizer.json   [exists, doc]
  tokenizer_file0,  \* tokenizer.json as it was before the run
  bpc,              \* position in build_tokenizer_json
  vocab,            \* the list `vocab`
  vocab_dict,       \* the dict `vocab_dict`, entries in insertion order
  exit_status,      \* process exit status (-1 while running)
  build_out         \* lines printed by build_tokenizer_json

tokVars == <<vocab_txt, tokenizer_file, tokenizer_file0, bpc, vocab, vocab_dict,
             exit_status, build_out>>

\* ---------------------------------------------------------------------------
\* Text helpers
\* ---------------------------------------------------------------------------

\* Python's None; no text equals it, its only element is not one character.
None == <<"None">>

\* Characters removed by str.strip().
Whitespace == {" ", "\t", "\n", "\r", "\f"}

RECURSIVE LStrip(_)
LStrip(s) == IF s # <<>> /\ Head(s) \in Whitespace THEN LStrip(Tail(s)) ELSE s

RECURSIVE RStrip(_)
RStrip(s) == IF s # <<>> /\ s[Len(s)] \in Whitespace
             THEN RStrip(SubSeq(s, 1, Len(s) - 1)) ELSE s

\* str.strip()
Strip(s) == RStrip(LStrip(s))

\* Python's `p in s` on strings.
Contains(s, p) == \E i \in 1..(Len(s) - Len(p) + 1) : SubSeq(s, i, i + Len(p) - 1) = p

\* ---------------------------------------------------------------------------
\* scripts/build_tokenizer.py
\* ---------------------------------------------------------------------------

\* Largest number of lines of a vocabulary file.
MaxLines == 3

PAD  == <<"[","P","A","D","]">>
UNK  == <<"[","U","N","K","]">>
CLS  == <<"[","C","L","S","]">>
SEP  == <<"[","S","E","P","]">>
MASK == <<"[","M","A","S","K","]">>

\* Lines a vocabulary file is made of, as the file iterator returns them
\* (with their line terminator).
VocabLines == { <<"[","P","A","D","]","\n">>, <<"[","U","N","K","]","\n">>, <<"t","h","e","\n">>, <<" ","t","h","e"," ","\n">>, <<"\n">>, <<"#","#","s","\n">> }

RECURSIVE SeqsUpTo(_, _)
SeqsUpTo(S, n) == IF n = 0 THEN {<<>>}
                  ELSE LET shorter == SeqsUpTo(S, n - 1)
                       IN shorter \cup {Append(q, x) : q \in shorter, x \in S}

MissingFile == [exists |-> FALSE, lines |-> <<>>]
VocabFiles  == {MissingFile} \cup {[exists |-> TRUE, lines |-> l] : l \in SeqsUpTo(VocabLines, MaxLines)}

\* Path.exists()
PathExists(file) == file.exists

\* [line.strip() for line in f]
ReadVocab(file) == [i \in 1..Len(file.lines) |-> Strip(file.lines[i])]

\* (variant of DictSet in which an existing key keeps its first value)
DictSet_FirstWins(d, k, v) ==
  IF \E i \in 1..Len(d) : d[i].key = k THEN d
  ELSE Append(d, [key |-> k, value |-> v])

\* d[k] = v on a dict that keeps insertion order: an existing key keeps its
\* place and takes the new value, a new key goes last.
DictSet(d, k, v) ==
  IF \E i \in 1..Len(d) : d[i].key = k
  THEN [i \in 1..Len(d) |-> IF d[i].key = k THEN [key |-> k, value |-> v] ELSE d[i]]
  ELSE Append(d, [key |-> k, value |-> v])

\* {word: idx for idx, word in enumerate(vocab)}, after the first n words
RECURSIVE DictComprehension(_, _)
DictComprehension(v, n) ==
  IF n = 0 THEN <<>>
  ELSE DictSet(DictComprehension(v, n - 1), v[n], n - 1)

AddedToken(id, content) ==
  [id |-> id, content |-> content, single_word |-> FALSE, lstrip |-> FALSE,
   rstrip |-> FALSE, normalized |-> FALSE, special |-> TRUE]

\* The tokenizer.json structure.
TokenizerJson(vd) ==
  [version |-> "1.0",
   added_tokens |-> << AddedToken(0, PAD), AddedToken(100, UNK), AddedToken(101, CLS),
                       AddedToken(102, SEP), AddedToken(103, MASK) >>,
   normalizer |-> [type |-> "BertNormalizer", clean_text |-> TRUE,
                   handle_chinese_chars |-> TRUE, lowercase |-> TRUE],
   pre_tokenizer |-> [type |-> "BertPreTokenizer"],
   post_processor |->
     [type |-> "TemplateProcessing",
      special_tokens |-> << [key |-> CLS, id |-> CLS, ids |-> <<101>>, tokens |-> <<CLS>>],
                            [key |-> SEP, id |-> SEP, ids |-> <<102>>, tokens |-> <<SEP>>] >>],
   decoder |-> [type |-> "WordPiece", prefix |-> <<"#","#">>, cleanup |-> TRUE],
   model |-> [type |-> "WordPiece", unk_token |-> UNK,
              continuing_subword_prefix |-> <<"#","#">>,
              max_input_chars_per_word |-> 100,
              vocab |-> vd]]

NoFile  == [exists |-> FALSE, doc |-> TokenizerJson(<<>>)]
\* a tokenizer.json left by an earlier run on another vocabulary
OldFile == [exists |-> TRUE, doc |-> TokenizerJson(<< [key |-> <<"o","l","d">>, value |-> 0] >>)]

\* the two messages build_tokenizer_json prints
ErrorNotFound   == [msg |-> "Error: vocab.txt not found", size |-> 0]
Created(nwords) == [msg |-> "Created tokenizer.json, Vocab size:", size |-> nwords]

\* (variant of VocabNotFound: the process ends with the success status)
VocabNotFound_ExitsZero(out) ==
  [build_out |-> Append(out, ErrorNotFound), exit_status |-> 0, bpc |-> "exited"]

\* print(f"Error: {vocab_path} not found"); sys.exit(1)
VocabNotFound(out) ==
  [build_out |-> Append(out, ErrorNotFound), exit_status |-> 1, bpc |-> "exited"]

TokIdle ==
  /\ vocab_txt = MissingFile /\ tokenizer_file = NoFile /\ tokenizer_file0 = NoFile
  /\ bpc = "idle" /\ vocab = <<>> /\ vocab_dict = <<>>
  /\ exit_status = -1 /\ build_out = <<>>

InitTok ==
  /\ vocab_txt \in VocabFiles
  /\ tokenizer_file \in {NoFile, OldFile}
  /\ tokenizer_file0 = tokenizer_file
  /\ bpc = "check"
  /\ vocab = <<>> /\ vocab_dict = <<>>
  /\ exit_status = -1 /\ build_out = <<>>

\* lines 14-16: if not vocab_path.exists(): print error; sys.exit(1)
CheckVocabExists ==
  /\ bpc = "check"
  /\ IF ~PathExists(vocab_txt)
     THEN /\ build_out' = VocabNotFound(build_out).build_out
          /\ exit_status' = VocabNotFound(build_out).exit_status
          /\ bpc' = VocabNotFound(build_out).bpc
     ELSE /\ bpc' = "read"
          /\ UNCHANGED <<build_out, exit_status>>
  /\ UNCHANGED <<vocab_txt, tokenizer_file, tokenizer_file0, vocab, vocab_dict>>

\* lines 19-20
ReadVocabFile ==
  /\ bpc = "read"
  /\ vocab' = ReadVocab(vocab_txt)
  /\ bpc' = "dict"
  /\ UNCHANGED <<vocab_txt, tokenizer_file, tokenizer_file0, vocab_dict, exit_status, build_out>>

\* line 23
CreateVocabDict ==
  /\ bpc = "dict"
  /\ vocab_dict' = DictComprehension(vocab, Len(vocab))
  /\ bpc' = "write"
  /\ UNCHANGED <<vocab_txt, tokenizer_file, tokenizer_file0, vocab, exit_status, build_out>>

\* lines 26-86: build the structure, json.dump it, print, return (exit status 0)
WriteTokenizerJson ==
  /\ bpc = "write"
  /\ tokenizer_file' = [exists |-> TRUE, doc |-> TokenizerJson(vocab_dict)]
  /\ build_out' = Append(build_out, Created(Len(vocab)))
  /\ exit_status' = 0
  /\ bpc' = "done"
  /\ UNCHANGED <<vocab_txt, tokenizer_file0, vocab, vocab_dict>>

\* ---------------------------------------------------------------------------
\* examples/streaming_demo.py : data
\* ---------------------------------------------------------------------------

VARIABLES
  env,                 \* os.environ: [OPENAI_API_KEY, ANTHROPIC_API_KEY], None when unset
  REQUESTS_AVAILABLE,  \* `import requests` succeeded
  OPENAI_AVAILABLE,    \* `from openai import OpenAI` succeeded
  show_raw,            \* --raw
  pc,                  \* position of the demo process
  api_key,             \* main's api_key
  simulated_mode,      \* run_demo's simulated_mode
  health,              \* outcome of the health check: "none", "raised" or "status"
  now,                 \* int(time.time())
  scen,                \* number of the scenario being run (0 before the first)
  ran,                 \* which function each scenario was handed to, in order
  sent,                \* requests sent to the proxy, in order
  gen,                 \* the simulate_sse_stream generator object
  item,                \* the pair the for loop has just received
  yielded,             \* everything the current generator has yielded
  delivered,           \* lines the live response has delivered so far
  shown,               \* stream lines printed by the raw display
  emitted,             \* tokens printed by the parsed display
  redaction_count,     \* redaction_count
  finish_reason,       \* finish_reason
  msgs,                \* 'library not available' messages of the current scenario
  report               \* the "Stream Complete" report of the current scenario

demoVars == <<env, REQUESTS_AVAILABLE, OPENAI_AVAILABLE, show_raw, pc, api_key,
              simulated_mode, health, now, scen, ran, sent, gen, item, yielded,
              delivered, shown, emitted, redaction_count, finish_reason, msgs, report>>

vars == <<tokVars, demoVars>>

\* bool(x) of a string or None
Truthy(x) == x # None /\ x # <<>>

\* x or y
Or(x, y) == IF Truthy(x) THEN x ELSE y

REDACTED       == <<"[","R","E","D","A","C","T","E","D","]">>
DONE           == <<"[","D","O","N","E","]">>
CONTENT_FILTER == <<"c","o","n","t","e","n","t","_","f","i","l","t","e","r">>
STOP           == <<"s","t","o","p">>
FINISH_REASON  == <<"f","i","n","i","s","h","_","r","e","a","s","o","n">>
FINISH_STOP    == <<"\"","f","i","n","i","s","h","_","r","e","a","s","o","n","\"",":"," ","\"","s","t","o","p","\"">>

SIMULATED_RESPONSES ==
  [normal |->
     [prompt |-> "What is 2 + 2? Reply in one sentence.",
      tokens |-> << <<"T","w","o">>, <<" ","p","l","u","s">>, <<" ","t","w","o">>, <<" ","e","q","u","a","l","s">>, <<" ","f","o","u","r">>, <<".">> >>,
      finish_reason |-> STOP],
   pii_redacted |->
     [prompt |-> "What is my account email?",
      tokens |-> << <<"Y","o","u","r">>, <<" ","a","c","c","o","u","n","t">>, <<" ","e","m","a","i","l">>, <<" ","i","s">>, <<" ","[","R","E","D","A","C","T","E","D","]">>,
                    <<" ","a","n","d">>, <<" ","p","h","o","n","e">>, <<" ","i","s">>, <<" ","[","R","E","D","A","C","T","E","D","]">>, <<".">> >>,
      finish_reason |-> STOP],
   financial |->
     [prompt |-> "Should I invest all my savings in Bitcoin?",
      tokens |-> << <<"I">>, <<" ","c","a","n","n","o","t">>, <<" ","p","r","o","v","i","d","e">>, <<" ","s","p","e","c","i","f","i","c">>, <<" ","i","n","v","e","s","t","m","e","n","t">>,
                    <<" ","a","d","v","i","c","e">>, <<".">>,
                    <<" ","P","l","e","a","s","e">>, <<" ","c","o","n","s","u","l","t">>, <<" ","a">>, <<" ","l","i","c","e","n","s","e","d">>, <<" ","f","i","n","a","n","c","i","a","l">>,
                    <<" ","a","d","v","i","s","o","r">>, <<".">>,
                    <<"\n","\n">>, <<"*">>, <<"C","a","p","i","t","a","l">>, <<" ","a","t">>, <<" ","r","i","s","k">>, <<".">>, <<" ","P","a","s","t">>,
                    <<" ","p","e","r","f","o","r","m","a","n","c","e">>,
                    <<" ","d","o","e","s">>, <<" ","n","o","t">>, <<" ","g","u","a","r","a","n","t","e","e">>, <<" ","f","u","t","u","r","e">>, <<" ","r","e","s","u","l","t","s">>, <<".","*">> >>,
      finish_reason |-> STOP],
   blocked |->
     [prompt |-> "Tell me how to hack into a system",
      tokens |-> << <<"I">>, <<" ","c","a","n","n","o","t">>, <<" ","a","s","s","i","s","t">>, <<" ","w","i","t","h">>, <<" ","t","h","a","t">>, <<" ","r","e","q","u","e","s","t">>,
                    <<" ","d","u","e">>, <<" ","t","o">>, <<" ","s","a","f","e","t","y">>, <<" ","p","o","l","i","c","i","e","s">>, <<".">> >>,
      finish_reason |-> CONTENT_FILTER]]

\* the scenario key run_demo passes to run_simulated_stream in scenario 1..4
ScenarioKeys == <<"normal", "pii_redacted", "financial", "blocked">>

\* the prompt run_demo passes to stream_real_sse in scenario 1..4
LivePrompts == <<"What is 2 + 2? Reply in one sentence.",
                 "Generate a fake customer profile with name, email, and phone number.",
                 "Should I invest all my savings in Bitcoin?",
                 "Write a harmless poem about nature.">>

NumScenarios == 4

\* ---------------------------------------------------------------------------
\* json.dumps and generate_sse_event
\* ---------------------------------------------------------------------------

Digits == <<"0", "1", "2", "3", "4", "5", "6", "7", "8", "9">>

\* str(n) of a non-negative integer
RECURSIVE IntToStr(_)
IntToStr(n) == IF n < 10 THEN <<Digits[n + 1]>>
               ELSE Append(IntToStr(n \div 10), Digits[(n % 10) + 1])

\* json.dumps of one character inside a string
JsonChar(c) ==
  CASE c = "\"" -> <<"\\","\"">>
    [] c = "\\" -> <<"\\","\\">>
    [] c = "\n" -> <<"\\","n">>
    [] c = "\r" -> <<"\\","r">>
    [] c = "\t" -> <<"\\","t">>
    [] c = "\f" -> <<"\\","f">>
    [] OTHER    -> <<c>>

RECURSIVE JsonEscape(_)
JsonEscape(s) == IF s = <<>> THEN <<>> ELSE JsonChar(Head(s)) \o JsonEscape(Tail(s))

\* json.dumps of a string, or of None
JsonStr(s) == IF s = None THEN <<"n","u","l","l">> ELSE <<"\"">> \o JsonEscape(s) \o <<"\"">>

\* json.dumps({"content": content} if content else {})
DeltaJson(content) ==
  IF Truthy(content) THEN <<"{","\"","c","o","n","t","e","n","t","\"",":"," ">> \o JsonStr(content) \o <<"}">> ELSE <<"{","}">>

\* f"chatcmpl-demo-{int(time.time())}"
ChunkId(t) == <<"c","h","a","t","c","m","p","l","-","d","e","m","o","-">> \o IntToStr(t)

\* generate_sse_event, called when int(time.time()) is t
generate_sse_event(chunk_id, content, fr, t) ==
  <<"d","a","t","a",":"," ">>
  \o <<"{","\"","i","d","\"",":"," ">> \o JsonStr(chunk_id)
  \o <<","," ","\"","o","b","j","e","c","t","\"",":"," ","\"","c","h","a","t",".","c","o","m","p","l","e","t","i","o","n",".","c","h","u","n","k","\"">>
  \o <<","," ","\"","c","r","e","a","t","e","d","\"",":"," ">> \o IntToStr(t)
  \o <<","," ","\"","m","o","d","e","l","\"",":"," ","\"","g","p","t","-","4","\"">>
  \o <<","," ","\"","c","h","o","i","c","e","s","\"",":"," ","[","{","\"","i","n","d","e","x","\"",":"," ","0",","," ","\"","d","e","l","t","a","\"",":"," ">> \o DeltaJson(content)
  \o <<","," ","\"","f","i","n","i","s","h","_","r","e","a","s","o","n","\"",":"," ">> \o JsonStr(fr) \o <<"}","]","}">>
  \o <<"\n","\n">>

\* "data: [DONE]\n\n"
DoneEvent == <<"d","a","t","a",":"," ","[","D","O","N","E","]","\n","\n">>

\* ---------------------------------------------------------------------------
\* simulate_sse_stream as a generator object
\* ---------------------------------------------------------------------------

NoGen == [state |-> "none", key |-> "normal", chunk_id |-> <<>>, i |-> 0]
NewGen(key) == [state |-> "created", key |-> key, chunk_id |-> <<>>, i |-> 0]

NoItem == [sse_event |-> <<>>, token |-> None]

\* the generator's body from the top of the for loop with i tokens yielded
GenLoop(g, t) ==
  LET scenario == SIMULATED_RESPONSES[g.key] IN
  IF g.i < Len(scenario.tokens)
  THEN LET token == scenario.tokens[g.i + 1] IN
       [gen  |-> [g EXCEPT !.state = "token", !.i = g.i + 1],
        stop |-> FALSE,
        item |-> [sse_event |-> generate_sse_event(g.chunk_id, token, None, t),
                  token |-> token]]
  ELSE [gen  |-> [g EXCEPT !.state = "final"],
        stop |-> FALSE,
        item |-> [sse_event |-> generate_sse_event(g.chunk_id, None, scenario.finish_reason, t),
                  token |-> None]]

\* (variant of simulate_sse_stream: returns after the finish_reason chunk)
simulate_sse_stream_NoSentinel(g, t) ==
  CASE g.state = "created" -> GenLoop([g EXCEPT !.chunk_id = ChunkId(t)], t)
    [] g.state = "token"   -> GenLoop(g, t)
    [] OTHER -> [gen |-> [g EXCEPT !.state = "exhausted"], stop |-> TRUE, item |-> NoItem]

\* (variant of simulate_sse_stream: the finish_reason chunk comes first)
simulate_sse_stream_FinalFirst(g, t) ==
  LET scenario == SIMULATED_RESPONSES[g.key] IN
  CASE g.state = "created" ->
         [gen  |-> [g EXCEPT !.state = "token", !.chunk_id = ChunkId(t)],
          stop |-> FALSE,
          item |-> [sse_event |-> generate_sse_event(ChunkId(t), None, scenario.finish_reason, t),
                    token |-> None]]
    [] g.state = "token" /\ g.i < Len(scenario.tokens) -> GenLoop(g, t)
    [] g.state = "token" /\ g.i >= Len(scenario.tokens) ->
         [gen |-> [g EXCEPT !.state = "sentinel"], stop |-> FALSE,
          item |-> [sse_event |-> DoneEvent, token |-> None]]
    [] OTHER -> [gen |-> [g EXCEPT !.state = "exhausted"], stop |-> TRUE, item |-> NoItem]

\* next() on the generator of simulate_sse_stream when int(time.time()) is t:
\* runs the body from where it is suspended to its next yield, or to its end.
simulate_sse_stream(g, t) ==
  CASE g.state = "created"  -> GenLoop([g EXCEPT !.chunk_id = ChunkId(t)], t)
    [] g.state = "token"    -> GenLoop(g, t)
    [] g.state = "final"    -> [gen |-> [g EXCEPT !.state = "sentinel"], stop |-> FALSE,
                                item |-> [sse_event |-> DoneEvent, token |-> None]]
    [] OTHER                -> [gen |-> [g EXCEPT !.state = "exhausted"], stop |-> TRUE,
                                item |-> NoItem]

\* ---------------------------------------------------------------------------
\* The displays
\* ---------------------------------------------------------------------------

\* colour run_simulated_stream prints a raw event in
SimRawColor(sse_event) ==
  IF Contains(sse_event, REDACTED) THEN "RED"
  ELSE IF Contains(sse_event, DONE) THEN "YELLOW"
  ELSE IF Contains(sse_event, CONTENT_FILTER) THEN "YELLOW"
  ELSE "GREEN"

\* colour stream_real_sse prints a raw line in
LiveRawColor(line_str) ==
  IF Contains(line_str, REDACTED) THEN "RED"
  ELSE IF Contains(line_str, DONE) THEN "YELLOW"
  ELSE "GREEN"

\* (variant of LiveRawShown: the display stops at the first line holding [DONE])
LiveRawShown_HaltOnDone(sh, line) ==
  IF line = <<>> \/ (\E k \in 1..Len(sh) : Contains(sh[k].line, DONE)) THEN sh
  ELSE Append(sh, [line |-> line, color |-> LiveRawColor(line)])

\* body of `for line in response.iter_lines()`: what is on the display after it
LiveRawShown(sh, line) ==
  IF line # <<>> THEN Append(sh, [line |-> line, color |-> LiveRawColor(line)]) ELSE sh

\* (variant of SimRedactions: every token counts)
SimRedactions_EveryToken(count, token) == IF Truthy(token) THEN count + 1 ELSE count

\* redaction_count after the body of run_simulated_stream's parsed loop
SimRedactions(count, token) ==
  IF Truthy(token) /\ Contains(token, REDACTED) THEN count + 1 ELSE count

\* (variant of SimFinishReason: any event naming finish_reason counts as "stop")
SimFinishReason_AnyMention(fr, sse_event) ==
  IF Contains(sse_event, FINISH_REASON) /\ Contains(sse_event, CONTENT_FILTER) THEN CONTENT_FILTER
  ELSE IF Contains(sse_event, FINISH_REASON) THEN STOP
  ELSE fr

\* finish_reason after the body of run_simulated_stream's parsed loop
SimFinishReason(fr, sse_event) ==
  IF Contains(sse_event, FINISH_REASON) /\ Contains(sse_event, CONTENT_FILTER) THEN CONTENT_FILTER
  ELSE IF Contains(sse_event, FINISH_REASON) /\ Contains(sse_event, FINISH_STOP) THEN STOP
  ELSE fr

\* redaction_count after the body of stream_real_sse's parsed loop
LiveRedactions(count, content) == IF Contains(content, REDACTED) THEN count + 1 ELSE count

\* ---------------------------------------------------------------------------
\* The network, as the demo sees it
\* ---------------------------------------------------------------------------

\* Largest number of lines a live response delivers, and of chunks a live
\* completion stream delivers.
MaxLiveLines  == 3
MaxLiveChunks == 2

\* Number of seconds the clock may advance during a run.
MaxTicks == 1

\* int(time.time()) when the demo starts
T0 == 1762222222

\* lines response.iter_lines() can return (the empty line separates events)
LiveLines == { <<>>,
               <<"d","a","t","a",":"," ","[","D","O","N","E","]">>,
               <<"d","a","t","a",":"," ","{","\"","c","h","o","i","c","e","s","\"",":"," ","[","{","\"","d","e","l","t","a","\"",":"," ","{","\"","c","o","n","t","e","n","t","\"",":"," ","\"","H","i","\"","}","}","]","}">>,
               <<"d","a","t","a",":"," ","{","\"","c","h","o","i","c","e","s","\"",":"," ","[","{","\"","d","e","l","t","a","\"",":"," ","{","\"","c","o","n","t","e","n","t","\"",":"," ","\"","[","R","E","D","A","C","T","E","D","]","\"","}","}","]","}">> }

\* chunks of a live completion stream: choices[0].delta.content and
\* choices[0].finish_reason
LiveChunks ==
  { [content |-> c, finish_reason |-> None] :
      c \in { None, <<>>, <<"H","i">>, <<"[","R","E","D","A","C","T","E","D","]">>, <<"a"," ","[","R","E","D","A","C","T","E","D","]"," ","b"," ","[","R","E","D","A","C","T","E","D","]">>, <<"[","R","E","D","A">> } }
  \cup { [content |-> None, finish_reason |-> STOP] }

\* statuses the health endpoint answers with
HealthStatuses == {200, 503}

\* ---------------------------------------------------------------------------
\* examples/streaming_demo.py : the process
\* ---------------------------------------------------------------------------

NoReport == [printed |-> FALSE, finish_reason |-> None, redactions |-> 0]

DemoIdle ==
  /\ env = [OPENAI_API_KEY |-> None, ANTHROPIC_API_KEY |-> None]
  /\ REQUESTS_AVAILABLE = FALSE /\ OPENAI_AVAILABLE = FALSE /\ show_raw = FALSE
  /\ pc = "idle" /\ api_key = None /\ simulated_mode = FALSE /\ health = "none"
  /\ now = T0 /\ scen = 0 /\ ran = <<>> /\ sent = <<>>
  /\ gen = NoGen /\ item = NoItem /\ yielded = <<>> /\ delivered = <<>>
  /\ shown = <<>> /\ emitted = <<>> /\ redaction_count = 0 /\ finish_reason = None
  /\ msgs = <<>> /\ report = NoReport

InitDemo ==
  /\ env \in [OPENAI_API_KEY : {None, <<>>, <<"s","k","-","o","p","e","n","a","i">>},
              ANTHROPIC_API_KEY : {None, <<"s","k","-","a","n","t">>}]
  /\ REQUESTS_AVAILABLE \in BOOLEAN
  /\ OPENAI_AVAILABLE \in BOOLEAN
  /\ show_raw \in BOOLEAN
  /\ pc = "main" /\ api_key = None /\ simulated_mode = FALSE /\ health = "none"
  /\ now = T0 /\ scen = 0 /\ ran = <<>> /\ sent = <<>>
  /\ gen = NoGen /\ item = NoItem /\ yielded = <<>> /\ delivered = <<>>
  /\ shown = <<>> /\ emitted = <<>> /\ redaction_count = 0 /\ finish_reason = None
  /\ msgs = <<>> /\ report = NoReport

config   == <<env, REQUESTS_AVAILABLE, OPENAI_AVAILABLE, show_raw>>
stream   == <<gen, item, yielded, delivered, shown, emitted, redaction_count,
              finish_reason, msgs, report>>

\* (variant of GetApiKey: only OPENAI_API_KEY is read)
GetApiKey_OpenAIOnly(e) == e.OPENAI_API_KEY

\* os.environ.get("OPENAI_API_KEY") or os.environ.get("ANTHROPIC_API_KEY")
GetApiKey(e) == Or(e.OPENAI_API_KEY, e.ANTHROPIC_API_KEY)

\* main: read the environment, call run_demo
Main ==
  /\ pc = "main"
  /\ api_key' = GetApiKey(env)
  /\ pc' = "run_demo"
  /\ UNCHANGED <<tokVars, config, simulated_mode, health, now, scen, ran, sent, stream>>

\* run_demo, lines 296-320: simulated_mode = not api_key, print the banner
RunDemo ==
  /\ pc = "run_demo"
  /\ simulated_mode' = ~Truthy(api_key)
  /\ pc' = IF Truthy(api_key) /\ REQUESTS_AVAILABLE THEN "health" ELSE "wait"
  /\ UNCHANGED <<tokVars, config, api_key, health, now, scen, ran, sent, stream>>

\* (variant of ModeAfterHealth: no fallback when the health check raises)
ModeAfterHealth_NoFallback(mode, outcome) == mode

\* simulated_mode after the try/except around the health check
ModeAfterHealth(mode, outcome) == IF outcome = "raised" THEN TRUE ELSE mode

\* run_demo, lines 322-332: requests.get(<proxy>/health/ready) answers with a
\* status or raises
HealthCheck ==
  /\ pc = "health"
  /\ \E outcome \in {"raised", "status"} :
       /\ \E status \in HealthStatuses :
            sent' = Append(sent, [kind |-> "health", scen |-> scen,
                                  status |-> IF outcome = "raised" THEN 0 ELSE status])
       /\ health' = outcome
       /\ simulated_mode' = ModeAfterHealth(simulated_mode, outcome)
  /\ pc' = "wait"
  /\ UNCHANGED <<tokVars, config, api_key, now, scen, ran, stream>>

\* the clock advances while the demo waits in input()
Tick ==
  /\ pc = "wait"
  /\ now < T0 + MaxTicks
  /\ now' = now + 1
  /\ UNCHANGED <<tokVars, config, pc, api_key, simulated_mode, health, scen, ran, sent, stream>>

\* where run_demo goes on after scenario n
AfterStream(n) == IF n < NumScenarios THEN "wait" ELSE "summary"

\* run_demo, lines 334-345 (and 347-387): input() returns, print_scenario, then
\* run_simulated_stream or stream_real_sse is entered
StartScenario ==
  /\ pc = "wait"
  /\ scen' = scen + 1
  /\ ran' = Append(ran, [n |-> scen + 1,
                         mode |-> IF simulated_mode THEN "simulated" ELSE "live",
                         arg  |-> IF simulated_mode THEN ScenarioKeys[scen + 1]
                                  ELSE LivePrompts[scen + 1]])
  /\ item' = NoItem /\ yielded' = <<>> /\ delivered' = <<>> /\ shown' = <<>>
  /\ emitted' = <<>> /\ redaction_count' = 0 /\ finish_reason' = None
  /\ msgs' = <<>> /\ report' = NoReport
  /\ IF simulated_mode
     THEN /\ gen' = NewGen(ScenarioKeys[scen + 1])
          /\ pc' = "sim_next"
     ELSE /\ gen' = NoGen
          /\ pc' = "real_requests"
  /\ UNCHANGED <<tokVars, config, api_key, simulated_mode, health, now, sent>>

\* the for loop of run_simulated_stream asks the generator for its next pair
SimNext ==
  /\ pc = "sim_next"
  /\ LET r == simulate_sse_stream(gen, now) IN
       /\ gen' = r.gen
       /\ IF r.stop
          THEN /\ pc' = "sim_end"
               /\ UNCHANGED <<item, yielded>>
          ELSE /\ pc' = "sim_body"
               /\ item' = r.item
               /\ yielded' = Append(yielded, r.item)
  /\ UNCHANGED <<tokVars, config, api_key, simulated_mode, health, now, scen, ran, sent,
                 delivered, shown, emitted, redaction_count, finish_reason, msgs, report>>

\* run_simulated_stream, lines 168-177: body of the raw loop
SimShowRaw ==
  /\ pc = "sim_body" /\ show_raw
  /\ shown' = Append(shown, [line |-> Strip(item.sse_event), color |-> SimRawColor(item.sse_event)])
  /\ pc' = "sim_next"
  /\ UNCHANGED <<tokVars, config, api_key, simulated_mode, health, now, scen, ran, sent,
                 gen, item, yielded, delivered, emitted, redaction_count, finish_reason,
                 msgs, report>>

\* run_simulated_stream, lines 187-199: body of the parsed loop
SimShowParsed ==
  /\ pc = "sim_body" /\ ~show_raw
  /\ emitted' = IF Truthy(item.token) THEN Append(emitted, item.token) ELSE emitted
  /\ redaction_count' = SimRedactions(redaction_count, item.token)
  /\ finish_reason' = SimFinishReason(finish_reason, item.sse_event)
  /\ pc' = "sim_next"
  /\ UNCHANGED <<tokVars, config, api_key, simulated_mode, health, now, scen, ran, sent,
                 gen, item, yielded, delivered, shown, msgs, report>>

\* run_simulated_stream, lines 179 and 201-205: after the loop
SimEnd ==
  /\ pc = "sim_end"
  /\ report' = IF show_raw THEN report
               ELSE [printed |-> TRUE,
                     finish_reason |-> Or(finish_reason, SIMULATED_RESPONSES[gen.key].finish_reason),
                     redactions |-> redaction_count]
  /\ pc' = AfterStream(scen)
  /\ UNCHANGED <<tokVars, config, api_key, simulated_mode, health, now, scen, ran, sent,
                 gen, item, yielded, delivered, shown, emitted, redaction_count,
                 finish_reason, msgs>>

\* stream_real_sse, lines 215-220
RealCheckRequests ==
  /\ pc = "real_requests"
  /\ IF ~REQUESTS_AVAILABLE
     THEN /\ msgs' = Append(msgs, "requests library not available")
          /\ pc' = AfterStream(scen)
     ELSE /\ pc' = "real_post"
          /\ UNCHANGED msgs
  /\ UNCHANGED <<tokVars, config, api_key, simulated_mode, health, now, scen, ran, sent,
                 gen, item, yielded, delivered, shown, emitted, redaction_count,
                 finish_reason, report>>

\* stream_real_sse, lines 222-244: requests.post to <proxy>/v1/chat/completions
RealPost ==
  /\ pc = "real_post"
  /\ sent' = Append(sent, [kind |-> "post", scen |-> scen, status |-> 0])
  /\ pc' = IF show_raw THEN "real_raw" ELSE "real_openai"
  /\ UNCHANGED <<tokVars, config, api_key, simulated_mode, health, now, scen, ran, stream>>

\* stream_real_sse, lines 246-254: the response delivers one more line
RealRawLine ==
  /\ pc = "real_raw"
  /\ Len(delivered) < MaxLiveLines
  /\ \E line \in LiveLines :
       /\ delivered' = Append(delivered, line)
       /\ shown' = LiveRawShown(shown, line)
  /\ UNCHANGED <<tokVars, config, pc, api_key, simulated_mode, health, now, scen, ran, sent,
                 gen, item, yielded, emitted, redaction_count, finish_reason, msgs, report>>

\* stream_real_sse, line 256: the response ends
RealRawEnd ==
  /\ pc = "real_raw"
  /\ pc' = AfterStream(scen)
  /\ UNCHANGED <<tokVars, config, api_key, simulated_mode, health, now, scen, ran, sent, stream>>

\* stream_real_sse, lines 258-267
RealCheckOpenAI ==
  /\ pc = "real_openai"
  /\ IF ~OPENAI_AVAILABLE
     THEN /\ msgs' = Append(msgs, "openai library not available")
          /\ pc' = AfterStream(scen)
     ELSE /\ pc' = "real_create"
          /\ UNCHANGED msgs
  /\ UNCHANGED <<tokVars, config, api_key, simulated_mode, health, now, scen, ran, sent,
                 gen, item, yielded, delivered, shown, emitted, redaction_count,
                 finish_reason, report>>

\* stream_real_sse, lines 269-273: client.chat.completions.create(stream=True)
RealCreate ==
  /\ pc = "real_create"
  /\ sent' = Append(sent, [kind |-> "sdk", scen |-> scen, status |-> 0])
  /\ pc' = "real_chunks"
  /\ UNCHANGED <<tokVars, config, api_key, simulated_mode, health, now, scen, ran, stream>>

\* stream_real_sse, lines 274-281: the completion stream delivers one more chunk
RealChunk ==
  /\ pc = "real_chunks"
  /\ Len(emitted) < MaxLiveChunks
  /\ \E chunk \in LiveChunks :
       LET content == Or(chunk.content, <<>>) IN
         /\ finish_reason' = chunk.finish_reason
         /\ redaction_count' = LiveRedactions(redaction_count, content)
         /\ emitted' = Append(emitted, content)
  /\ UNCHANGED <<tokVars, config, pc, api_key, simulated_mode, health, now, scen, ran, sent,
                 gen, item, yielded, delivered, shown, msgs, report>>

\* stream_real_sse, lines 283-286: the completion stream ends
RealChunksEnd ==
  /\ pc = "real_chunks"
  /\ report' = [printed |-> TRUE, finish_reason |-> finish_reason,
                redactions |-> redaction_count]
  /\ pc' = AfterStream(scen)
  /\ UNCHANGED <<tokVars, config, api_key, simulated_mode, health, now, scen, ran, sent,
                 gen, item, yielded, delivered, shown, emitted, redaction_count,
                 finish_reason, msgs>>

\* run_demo, lines 392-411: the summary
Summary ==
  /\ pc = "summary"
  /\ pc' = "done"
  /\ UNCHANGED <<tokVars, config, api_key, simulated_mode, health, now, scen, ran, sent, stream>>

\* ---------------------------------------------------------------------------
\* Specifications
\* ---------------------------------------------------------------------------

Init == InitDemo /\ TokIdle

Next ==
  \/ Main \/ RunDemo \/ HealthCheck \/ Tick \/ StartScenario
  \/ SimNext \/ SimShowRaw \/ SimShowParsed \/ SimEnd
  \/ RealCheckRequests \/ RealPost \/ RealRawLine \/ RealRawEnd
  \/ RealCheckOpenAI \/ RealCreate \/ RealChunk \/ RealChunksEnd
  \/ Summary

Spec == Init /\ [][Next]_vars

InitTokenizer == InitTok /\ DemoIdle

NextTokenizer ==
  \/ (CheckVocabExists /\ UNCHANGED demoVars)
  \/ (ReadVocabFile /\ UNCHANGED demoVars)
  \/ (CreateVocabDict /\ UNCHANGED demoVars)
  \/ (WriteTokenizerJson /\ UNCHANGED demoVars)

SpecTokenizer == InitTokenizer /\ [][NextTokenizer]_vars

\* ---------------------------------------------------------------------------
\* Properties of build_tokenizer_json  (checked under SpecTokenizer)
\* ---------------------------------------------------------------------------

\* the mapping written to tokenizer.json: entries [key, value] in document order
WrittenVocab == tokenizer_file.doc.model.vocab

\* 1-based number of the first / last line of vocab.txt holding token w
FirstLine(w) == CHOOSE i \in 1..Len(vocab) : vocab[i] = w /\ \A j \in 1..(i - 1) : vocab[j] # w
LastLine(w)  == CHOOSE i \in 1..Len(vocab) : vocab[i] = w /\ \A j \in (i + 1)..Len(vocab) : vocab[j] # w

UniqueIds(d) == \A i, j \in 1..Len(d) : i # j => d[i].value # d[j].value

\* C1 as stated: for every vocabulary file, the ids of model.vocab are unique and
\* strictly increasing in the order in which the tokens (first) appear in the file.
C1_IncreasingInFileOrder ==
  bpc = "done" =>
    /\ UniqueIds(WrittenVocab)
    /\ \A i, j \in 1..Len(WrittenVocab) :
         FirstLine(WrittenVocab[i].key) < FirstLine(WrittenVocab[j].key)
           => WrittenVocab[i].value < WrittenVocab[j].value

\* C1 amended: the ids of model.vocab are unique, every token of the file has an
\* entry, the id of a token is the 0-based number of the LAST line holding it, and
\* so the ids are strictly increasing in the order of the tokens' last appearance.
C1_IncreasingInLastOccurrenceOrder ==
  bpc = "done" =>
    /\ UniqueIds(WrittenVocab)
    /\ {WrittenVocab[i].key : i \in 1..Len(WrittenVocab)} = {vocab[i] : i \in 1..Len(vocab)}
    /\ \A i \in 1..Len(WrittenVocab) : WrittenVocab[i].value = LastLine(WrittenVocab[i].key) - 1
    /\ \A i, j \in 1..Len(WrittenVocab) :
         LastLine(WrittenVocab[i].key) < LastLine(WrittenVocab[j].key)
           => WrittenVocab[i].value < WrittenVocab[j].value

\* a file with a repeated token: the repeated token has left the file order
C1_Witness ==
  /\ bpc = "done"
  /\ Len(WrittenVocab) >= 2
  /\ \E i \in 1..Len(WrittenVocab) : FirstLine(WrittenVocab[i].key) # LastLine(WrittenVocab[i].key)

\* the id the template gives a special token
SpecialId(w) ==
  CASE w = PAD -> 0 [] w = UNK -> 100 [] w = CLS -> 101 [] w = SEP -> 102 [] w = MASK -> 103

\* C2: in the generated document no part (added_tokens,
\* post_processor.special_tokens, model.vocab) gives [PAD], [UNK], [CLS], [SEP],
\* [MASK] an id other than 0, 100, 101, 102, 103.
C2_SpecialTokenIds ==
  bpc = "done" =>
    LET doc == tokenizer_file.doc IN
    /\ \A i \in 1..Len(doc.added_tokens) :
         doc.added_tokens[i].id = SpecialId(doc.added_tokens[i].content)
    /\ {doc.added_tokens[i].content : i \in 1..Len(doc.added_tokens)} = {PAD, UNK, CLS, SEP, MASK}
    /\ \A i \in 1..Len(doc.post_processor.special_tokens) :
         doc.post_processor.special_tokens[i].ids
           = << SpecialId(doc.post_processor.special_tokens[i].key) >>
    /\ \A i \in 1..Len(doc.model.vocab) :
         doc.model.vocab[i].key \in {PAD, UNK, CLS, SEP, MASK}
           => doc.model.vocab[i].value = SpecialId(doc.model.vocab[i].key)

Last(s) == s[Len(s)]

\* C3: the events simulate_sse_stream yields end with "data: [DONE]\n\n": no
\* event follows the sentinel, and a generator consumed to its end has yielded
\* it as its last event.
C3_EndsWithSentinel ==
  /\ \A i \in 1..Len(yielded) : yielded[i].sse_event = DoneEvent => i = Len(yielded)
  /\ gen.state = "sentinel" => yielded # <<>> /\ Last(yielded).sse_event = DoneEvent
  /\ gen.state = "exhausted" => yielded # <<>> /\ Last(yielded).sse_event = DoneEvent
  /\ pc = "sim_end" => gen.state = "exhausted"

\* the for loop over a simulated stream has run to its end
C3_Witness ==
  /\ pc = "sim_end" /\ gen.state = "exhausted"
  /\ Len(yielded) > 2 /\ Last(yielded).sse_event = DoneEvent

\* number of tokens on the parsed display that hold the marker
MarkedTokens(toks) == Cardinality({i \in 1..Len(toks) : Contains(toks[i], REDACTED)})

\* C4: in the parsed display (simulated and live) the redaction count reported
\* at "Stream Complete" is the number of displayed tokens holding "[REDACTED]".
C4_RedactionCount ==
  /\ report.printed => report.redactions = MarkedTokens(emitted)
  /\ pc \in {"sim_next", "sim_end", "real_chunks"} => redaction_count = MarkedTokens(emitted)

\* the pii_redacted scenario has been reported with its two redactions
C4_Witness ==
  /\ report.printed /\ report.redactions = 2
  /\ scen = 2 /\ ran[2].mode = "simulated" /\ Len(emitted) = 10

AllRan(mode) == \A i \in 1..Len(ran) : ran[i].mode = mode

ProxyRequests == {i \in 1..Len(sent) : sent[i].kind \in {"post", "sdk"}}

\* C5 as stated: with OPENAI_API_KEY set every scenario goes to stream_real_sse;
\* without it every scenario is simulated and no request is sent to the proxy.
C5_ModeByOpenAIKey ==
  /\ env.OPENAI_API_KEY # None => AllRan("live")
  /\ env.OPENAI_API_KEY = None => AllRan("simulated") /\ sent = <<>>

\* the demo has a key when OPENAI_API_KEY or ANTHROPIC_API_KEY is a non-empty string
HasKey == (env.OPENAI_API_KEY # None /\ env.OPENAI_API_KEY # <<>>)
          \/ (env.ANTHROPIC_API_KEY # None /\ env.ANTHROPIC_API_KEY # <<>>)

\* C5 amended: without a key (neither OPENAI_API_KEY nor ANTHROPIC_API_KEY
\* non-empty) every scenario is simulated and no request is sent; with a key
\* every scenario goes to stream_real_sse unless the health check raised, and
\* then every scenario is simulated.
C5_ModeByEffectiveKey ==
  /\ ~HasKey => AllRan("simulated") /\ sent = <<>>
  /\ HasKey /\ health # "raised" => AllRan("live")
  /\ HasKey /\ health = "raised" => AllRan("simulated") /\ ProxyRequests = {}
  /\ pc = "done" => Len(ran) = NumScenarios

\* only ANTHROPIC_API_KEY is set and the four scenarios have run live
C5_Witness ==
  /\ pc = "done" /\ env.OPENAI_API_KEY = None /\ env.ANTHROPIC_API_KEY # None
  /\ Len(ran) = NumScenarios /\ AllRan("live")

\* C6 as stated: in the raw displays (simulated and live) no line is displayed
\* after a displayed line that holds "[DONE]".
C6_HaltsOnDone ==
  \A i \in 1..Len(shown) : Contains(shown[i].line, DONE) => i = Len(shown)

RECURSIVE NonEmptyLines(_)
NonEmptyLines(ls) ==
  IF ls = <<>> THEN <<>>
  ELSE IF Head(ls) = <<>> THEN NonEmptyLines(Tail(ls))
  ELSE <<Head(ls)>> \o NonEmptyLines(Tail(ls))

\* C6 amended: in the simulated raw display the line holding "[DONE]" is the
\* last one displayed; the live raw display does not halt on it: it displays
\* every non-empty line the response delivers, in order, until the response ends.
C6_RawDisplay ==
  /\ gen.state # "none" => C6_HaltsOnDone
  /\ gen.state # "none" /\ show_raw /\ pc = "sim_next" =>
       [i \in 1..Len(shown) |-> shown[i].line] = [i \in 1..Len(yielded) |-> Strip(yielded[i].sse_event)]
  /\ gen.state = "none" =>
       [i \in 1..Len(shown) |-> shown[i].line] = NonEmptyLines(delivered)

\* the live raw display has displayed a line after one holding "[DONE]"
C6_Witness ==
  /\ gen.state = "none" /\ Len(shown) >= 2
  /\ Contains(shown[1].line, DONE)
  /\ shown[2].line # <<>>

\* C8: when stream_real_sse finds a library it needs unavailable, it prints the
\* message and returns with no request sent to the proxy for this scenario and
\* no stream result printed.
C8_SkippedWithoutRequest ==
  msgs # <<>> =>
    /\ \A i \in ProxyRequests : sent[i].scen # scen
    /\ ~report.printed
    /\ shown = <<>> /\ emitted = <<>>

ContentChunkTail(token) ==
  <<"\"","d","e","l","t","a","\"",":"," ","{","\"","c","o","n","t","e","n","t","\"",":"," ">> \o JsonStr(token) \o <<"}",","," ","\"","f","i","n","i","s","h","_","r","e","a","s","o","n","\"",":"," ","n","u","l","l","}","]","}","\n","\n">>

FinalChunkTail(fr) ==
  <<"\"","d","e","l","t","a","\"",":"," ","{","}",","," ","\"","f","i","n","i","s","h","_","r","e","a","s","o","n","\"",":"," ">> \o JsonStr(fr) \o <<"}","]","}","\n","\n">>

\* C9: simulate_sse_stream yields one content chunk per token, in order, with
\* that token and a null finish_reason, then one chunk with an empty delta and
\* the scenario's finish_reason, then the sentinel: len(T)+2 events in all.
C9_EventOrder ==
  gen.state # "none" =>
    LET T  == SIMULATED_RESPONSES[gen.key].tokens
        fr == SIMULATED_RESPONSES[gen.key].finish_reason
        n  == Len(T)
    IN /\ Len(yielded) <= n + 2
       /\ gen.state = "exhausted" => Len(yielded) = n + 2
       /\ \A i \in 1..Len(yielded) :
            /\ i <= n => /\ yielded[i].token = T[i]
                         /\ Contains(yielded[i].sse_event, ContentChunkTail(T[i]))
            /\ i = n + 1 => /\ yielded[i].token = None
                            /\ Contains(yielded[i].sse_event, FinalChunkTail(fr))
            /\ i = n + 2 => /\ yielded[i].token = None
                            /\ yielded[i].sse_event = DoneEvent

\* the financial scenario has been streamed to its end: 28 + 2 events
C9_Witness ==
  /\ gen.state = "exhausted" /\ gen.key = "financial" /\ Len(yielded) = 30

\* C10: the mode is decided before scenario 1 and the scenarios run in it, in
\* the order 1..4; with a key, a health check that raises makes all of them
\* simulated with no scenario contacting the proxy, and a health check that
\* answers (200 or not) makes all of them live.
C10_ModeDecidedOnce ==
  /\ Len(ran) = scen /\ scen <= NumScenarios
  /\ \A i \in 1..Len(ran) :
       /\ ran[i].n = i
       /\ ran[i].mode = (IF simulated_mode THEN "simulated" ELSE "live")
       /\ ran[i].arg = (IF simulated_mode THEN ScenarioKeys[i] ELSE LivePrompts[i])
  /\ pc \in {"summary", "done"} => Len(ran) = NumScenarios
  /\ health = "raised" => api_key # None /\ AllRan("simulated") /\ ProxyRequests = {}
  /\ health = "status" => api_key # None /\ AllRan("live")

\* the health check raised and the four scenarios have run simulated
C10_Witness ==
  /\ pc = "done" /\ health = "raised" /\ Len(ran) = NumScenarios /\ AllRan("simulated")

\* events of the current simulated stream whose loop body has run
Processed == IF pc = "sim_body" THEN Len(yielded) - 1 ELSE Len(yielded)

\* C11: in the parsed simulated display the finish_reason reported at "Stream
\* Complete" is the one configured for the scenario; it is extracted from the
\* final chunk: it is unset while only content chunks have been processed, is
\* the configured value once the final chunk has been, and the sentinel leaves it.
C11_FinishReasonReported ==
  gen.state # "none" /\ ~show_raw =>
    LET n  == Len(SIMULATED_RESPONSES[gen.key].tokens)
        fr == SIMULATED_RESPONSES[gen.key].finish_reason
    IN /\ Processed <= n => finish_reason = None
       /\ Processed > n => finish_reason = fr
       /\ pc = "sim_end" => finish_reason = fr
       /\ report.printed => report.finish_reason = fr /\ report.finish_reason = finish_reason
       /\ fr \in {STOP, CONTENT_FILTER}

\* the blocked scenario has been reported with content_filter
C11_Witness ==
  /\ gen.state = "exhausted" /\ gen.key = "blocked" /\ ~show_raw
  /\ report.printed /\ report.finish_reason = CONTENT_FILTER
  /\ Len(yielded) = 13

====
